---- MODULE Spec2Model ----
(***************************************************************************)
(* Model of nemo/utils/export_utils.py (module expansion: auto_expand,     *)
(* swap_expanded and the conversion functions) and of                      *)
(* nemo/utils/injection_utils.py (run_injected).                           *)
(*                                                                         *)
(* Part I, the module hierarchy.  A module is a heap object named by its   *)
(* index.  kindOf[m] is type(m).__name__ and modules[m] is m._modules, an  *)
(* ordered dictionary, kept as the sequence of its (name, mod) items in    *)
(* insertion order.  ownState[m] tells whether m itself holds parameters   *)
(* or buffers, the entries it adds to state_dict().  A child name is a     *)
(* string, kept as a sequence of one-character strings so that the dotted  *)
(* paths built by named_modules and taken apart by str.split are computed  *)
(* character by character.                                                 *)
(***************************************************************************)
EXTENDS Integers, Sequences, FiniteSets, TLC

VARIABLES
    kindOf,      \* heap: kindOf[m] = type(m).__name__
    modules,     \* heap: modules[m] = m._modules as a sequence of [name, mod]
    ownState,    \* heap: ownState[m] = m has parameters or buffers of its own
    expansions,  \* the rule table of the call: kind name -> conversion function
    pc,          \* position in auto_expand: ready, loop, swap, returned, raised
    todo,        \* items of model.named_modules() the loop has not visited yet
    mapping,     \* the dict mapping of auto_expand, as a sequence of [path, new_mod]
    items,       \* items of mapping.items() swap_expanded has not applied yet
    logged,      \* the number in the last "Swapped N modules" warning, -1 if none
    error,       \* the exception the call raised: none, ValueError,
                 \* RuntimeError, KeyError
    ret,         \* the object the last call returned, 0 if none
    passes,      \* number of auto_expand calls begun on this hierarchy
    modules0,    \* history: modules when the current call began
    applied,     \* history: mapping entries the current call has applied
    fn,          \* run_injected: the callable's declared parameters
    args,        \* run_injected: the positional arguments
    kwargs,      \* run_injected: the named arguments, a function key -> value
    ipc,         \* run_injected: start, bound, returned, raised
    bound_args,  \* run_injected: BoundArguments.arguments after apply_defaults
    result,      \* run_injected: what fn returned (the values it was called with)
    invoked      \* run_injected: number of times fn was invoked

evars == <<kindOf, modules, ownState, expansions, pc, todo, mapping, items, logged, error,
           ret, passes, modules0, applied>>
ivars == <<fn, args, kwargs, ipc, bound_args, result, invoked>>
vars == <<evars, ivars>>

\* Bounds of the model.
MaxNodes == 4
MaxPasses == 2

\* The root module handed to auto_expand and swap_expanded.
model == 1

Dot == "."
EmptyStr == <<>>
\* The child names of the hierarchies, in the order the children are added.
ChildNameOrder == << <<"a">>, <<"b">> >>
ChildNames == {ChildNameOrder[i] : i \in DOMAIN ChildNameOrder}

-----------------------------------------------------------------------------
(* Ordered dictionaries (OrderedDict / dict): a sequence of items with      *)
(* distinct keys.                                                           *)

HasKey(d, k) == \E i \in 1..Len(d) : d[i].name = k

\* d[k]; only used where HasKey(d, k)
GetItem(d, k) == d[CHOOSE i \in 1..Len(d) : d[i].name = k].mod

\* d[k] = v: an existing key keeps its position, a new key is appended.
SetItem(d, k, v) ==
    IF HasKey(d, k)
    THEN [i \in 1..Len(d) |-> IF d[i].name = k THEN [name |-> k, mod |-> v] ELSE d[i]]
    ELSE Append(d, [name |-> k, mod |-> v])

-----------------------------------------------------------------------------
(* Strings.                                                                 *)

\* Index of the first "." of s, 0 if there is none.
FirstDot(s) ==
    IF \E i \in 1..Len(s) : s[i] = Dot
    THEN CHOOSE i \in 1..Len(s) : s[i] = Dot /\ \A j \in 1..(i-1) : s[j] # Dot
    ELSE 0

\* path.split("."): "" gives [""], "a.b" gives ["a", "b"].
RECURSIVE Split(_)
Split(s) ==
    LET d == FirstDot(s) IN
    IF d = 0 THEN <<s>>
    ELSE <<SubSeq(s, 1, d - 1)>> \o Split(SubSeq(s, d + 1, Len(s)))

\* named_modules: submodule_prefix = prefix + ('.' if prefix else '') + name
SubmodulePrefix(prefix, name) ==
    prefix \o (IF prefix # EmptyStr THEN <<Dot>> ELSE EmptyStr) \o name

-----------------------------------------------------------------------------
(* torch.nn.Module.named_modules(memo=None, prefix=''), as auto_expand      *)
(* calls it: a pre-order walk of _modules in insertion order that yields    *)
(* (prefix, module) and skips a module object it has already yielded.       *)

RECURSIVE NamedModulesRec(_, _, _, _)
RECURSIVE NamedChildrenRec(_, _, _, _, _)

NamedModulesRec(mods, m, memo, prefix) ==
    IF m \in memo THEN [out |-> <<>>, memo |-> memo]
    ELSE NamedChildrenRec(mods, mods[m], 1, prefix,
                          [out |-> <<[name |-> prefix, mod |-> m]>>,
                           memo |-> memo \cup {m}])

NamedChildrenRec(mods, d, i, prefix, acc) ==
    IF i > Len(d) THEN acc
    ELSE LET sub == NamedModulesRec(mods, d[i].mod, acc.memo,
                                    SubmodulePrefix(prefix, d[i].name))
         IN NamedChildrenRec(mods, d, i + 1, prefix,
                             [out |-> acc.out \o sub.out, memo |-> sub.memo])

NamedModules(mods, m) == NamedModulesRec(mods, m, {}, EmptyStr).out

-----------------------------------------------------------------------------
(* The conversion functions.  A conversion is given a module m of the heap  *)
(* (mods, kinds, st) and answers None ("no match"), a new module of some    *)
(* kind, or raises.  isinstance(m, T) is kinds[m] = T: the model has no     *)
(* subclasses.  close is the outcome of the numerical check of              *)
(* expand_Conv1D on its two random samples.                                 *)

NoMatch == [tag |-> "None"]
Raise(e) == [tag |-> "raise", exc |-> e]
NewMod(k, s) == [tag |-> "mod", kind |-> k, state |-> s]

\* Whether m or a module below it adds entries to a state_dict().
RECURSIVE HasState(_, _, _)
HasState(mods, st, m) ==
    st[m] \/ \E i \in 1..Len(mods[m]) : HasState(mods, st, mods[m][i].mod)

\* m.state_dict() has keys a new module of m's own configuration lacks: the
\* prefixed entries of the modules below m.  load_state_dict is strict and
\* raises RuntimeError on them.
UnexpectedKeys(mods, st, m) ==
    \E i \in 1..Len(mods[m]) : HasState(mods, st, mods[m][i].mod)

\* A Conv2d always has its weight.
expand_Conv1D(mods, kinds, st, m, close) ==
    IF kinds[m] # "Conv1d" THEN NoMatch
    ELSE IF ~close THEN Raise("ValueError")
    ELSE NewMod("Conv2d", TRUE)

\* The BatchNorm2d is built with bn1d's affine and track_running_stats, so
\* it has parameters or buffers exactly when bn1d has.
expand_BatchNorm1d(mods, kinds, st, m) ==
    IF kinds[m] # "BatchNorm1d" THEN NoMatch
    ELSE IF UnexpectedKeys(mods, st, m) THEN Raise("RuntimeError")
    ELSE NewMod("BatchNorm2d", st[m])

\* The destination kinds of the default table, the pooling layers, have
\* neither parameters nor buffers.
simple_expand(BaseT, DestT, mods, kinds, st, m) ==
    IF kinds[m] # BaseT THEN NoMatch ELSE NewMod(DestT, FALSE)

\* Conversions a caller supplies in its own rule table: one that fuses a
\* Block into an Identity, one that answers an empty Sequential.
fuse_block(mods, kinds, st, m) ==
    IF kinds[m] # "Block" THEN NoMatch ELSE NewMod("Identity", FALSE)
empty_container(mods, kinds, st, m) == NewMod("Sequential", FALSE)

\* Calling the conversion function c of a rule table on module m.
CallExpansion(c, mods, kinds, st, m, close) ==
    CASE c.f = "expand_Conv1D" -> expand_Conv1D(mods, kinds, st, m, close)
      [] c.f = "expand_BatchNorm1d" -> expand_BatchNorm1d(mods, kinds, st, m)
      [] c.f = "simple_expand" -> simple_expand(c.BaseT, c.DestT, mods, kinds, st, m)
      [] c.f = "fuse_block" -> fuse_block(mods, kinds, st, m)
      [] c.f = "empty_container" -> empty_container(mods, kinds, st, m)

\* The default rule table of auto_expand.
DefaultExpansions ==
    [k \in {"Conv1d", "BatchNorm1d", "AdaptiveAvgPool1d", "AvgPool1d"} |->
        CASE k = "Conv1d" -> [f |-> "expand_Conv1D"]
          [] k = "BatchNorm1d" -> [f |-> "expand_BatchNorm1d"]
          [] k = "AdaptiveAvgPool1d" ->
                [f |-> "simple_expand", BaseT |-> "AdaptiveAvgPool1d",
                 DestT |-> "AdaptiveAvgPool2d"]
          [] k = "AvgPool1d" ->
                [f |-> "simple_expand", BaseT |-> "AvgPool1d", DestT |-> "AvgPool2d"]]

\* A caller-supplied rule table.
CustomExpansions ==
    [k \in {"Conv1d", "Block", "Linear"} |->
        CASE k = "Conv1d" -> [f |-> "expand_Conv1D"]
          [] k = "Block" -> [f |-> "fuse_block"]
          [] k = "Linear" -> [f |-> "empty_container"]]

RuleTables == {DefaultExpansions, CustomExpansions}

\* bool(module): a module is truthy unless its class defines __len__ (the
\* containers) and it has no children.
SizedKinds == {"Sequential", "ModuleList", "ModuleDict"}
Truthy(k, d) == ~(k \in SizedKinds /\ Len(d) = 0)

-----------------------------------------------------------------------------
(* swap_expanded: the walk to the parent of a dotted path.                  *)

NoModule == 0

\* for sub_path in segs: parent_mod = parent_mod._modules[sub_path]
\* NoModule stands for the KeyError of a missing child.
RECURSIVE Walk(_, _, _)
Walk(mods, m, segs) ==
    IF segs = <<>> THEN m
    ELSE IF ~HasKey(mods[m], Head(segs)) THEN NoModule
    ELSE Walk(mods, GetItem(mods[m], Head(segs)), Tail(segs))

\* expanded_path[:-1] and expanded_path[-1]
AllButLast(p) == SubSeq(p, 1, Len(p) - 1)
Last(p) == p[Len(p)]

\* A mutation of SwapParent: the walk is skipped, every entry lands in the root.
SwapParentRoot(mods, root, path) == root

\* The parent whose child the entry for path replaces.
SwapParent(mods, root, path) == Walk(mods, root, AllButLast(Split(path)))

\* The module a dotted path addresses: the child named by its last segment
\* under its parent, NoModule where a segment is missing.  The path "" splits
\* into the one segment "" and addresses the root's child of that name.
ModuleAt(mods, root, path) == Walk(mods, root, Split(path))

-----------------------------------------------------------------------------
(* The hierarchies a call starts from: n modules, each module's children    *)
(* among the later ones (no cycles), child names distinct within a module,  *)
(* numbered in the order named_modules meets them, so that every module is  *)
(* reachable from the root.  Modules with children are containers, modules  *)
(* without are layers; children are added in the order of ChildNameOrder.   *)

ContainerKinds == {"Sequential", "Block"}
LayerKinds == {"Conv1d", "BatchNorm1d", "Linear"}

ItemsBelow(p, n) == [name : ChildNames, mod : (p + 1)..n]

NameIndex(x) == CHOOSE i \in DOMAIN ChildNameOrder : ChildNameOrder[i] = x

ItemSeqs(p, n) ==
    UNION {{d \in [1..k -> ItemsBelow(p, n)] :
               \A i, j \in 1..k : i < j => NameIndex(d[i].name) < NameIndex(d[j].name)} :
           k \in 0..Cardinality(ChildNames)}

RECURSIVE Heaps(_, _)
Heaps(p, n) ==
    IF p > n THEN {<<>>}
    ELSE {<<d>> \o rest : d \in ItemSeqs(p, n), rest \in Heaps(p + 1, n)}

InOrder(mods) ==
    LET nm == NamedModules(mods, model)
    IN [i \in 1..Len(nm) |-> nm[i].mod] = [i \in 1..Len(mods) |-> i]

Hierarchies == UNION {{mods \in Heaps(1, n) : InOrder(mods)} : n \in 1..MaxNodes}

KindsFor(mods) ==
    {ks \in [1..Len(mods) -> ContainerKinds \cup LayerKinds] :
        \A m \in 1..Len(mods) :
            IF mods[m] = <<>> THEN ks[m] \in LayerKinds ELSE ks[m] \in ContainerKinds}

\* Parameters and buffers of the modules a call starts from: a Conv1d and a
\* Linear have their weight, a container has none of its own, a BatchNorm1d
\* has them unless built with affine=False and track_running_stats=False.
StatesFor(ks) ==
    {st \in [1..Len(ks) -> BOOLEAN] :
        \A m \in 1..Len(ks) :
            CASE ks[m] \in {"Conv1d", "Linear"} -> st[m]
              [] ks[m] \in ContainerKinds -> ~st[m]
              [] OTHER -> TRUE}

-----------------------------------------------------------------------------
(* auto_expand(model, expansions=...)                                       *)

InitE ==
    /\ modules \in Hierarchies
    /\ kindOf \in KindsFor(modules)
    /\ ownState \in StatesFor(kindOf)
    /\ expansions \in RuleTables
    /\ pc = "ready"
    /\ todo = <<>>
    /\ mapping = <<>>
    /\ items = <<>>
    /\ logged = -1
    /\ error = "none"
    /\ ret = NoModule
    /\ passes = 0
    /\ modules0 = modules
    /\ applied = 0

\* The call begins: mapping = {} and the loop over model.named_modules().
AutoExpandBegin ==
    /\ pc \in {"ready", "returned"}
    /\ passes < MaxPasses
    /\ pc' = "loop"
    /\ todo' = NamedModules(modules, model)
    /\ mapping' = <<>>
    /\ items' = <<>>
    /\ logged' = -1
    /\ error' = "none"
    /\ ret' = NoModule
    /\ passes' = passes + 1
    /\ modules0' = modules
    /\ applied' = 0
    /\ UNCHANGED <<kindOf, modules, ownState, expansions>>

\* What the rule table's conversion can answer for module m.
Outcomes(m) ==
    IF kindOf[m] \in DOMAIN expansions
    THEN {CallExpansion(expansions[kindOf[m]], modules, kindOf, ownState, m, close) :
             close \in BOOLEAN}
    ELSE {NoMatch}

Swapped(o) == o.tag = "mod" /\ Truthy(o.kind, <<>>)

\* One iteration of the loop that stores nothing: the kind is not in the
\* table, or the conversion answered None or a falsy module.
LoopSkip ==
    /\ pc = "loop" /\ todo # <<>>
    /\ \E o \in Outcomes(Head(todo).mod) : o.tag # "raise" /\ ~Swapped(o)
    /\ todo' = Tail(todo)
    /\ UNCHANGED <<kindOf, modules, ownState, expansions,
                   pc, mapping, items, logged, error,
                   ret, passes, modules0, applied>>

\* A mutation of LoopMap: the replacement is substituted as soon as it is built.
LoopMapEager ==
    /\ pc = "loop" /\ todo # <<>>
    /\ \E o \in Outcomes(Head(todo).mod) :
        /\ Swapped(o)
        /\ kindOf' = Append(kindOf, o.kind)
        /\ ownState' = Append(ownState, o.state)
        /\ LET new == Len(modules) + 1
               heap == Append(modules, <<>>)
               parent == SwapParent(heap, model, Head(todo).name)
           IN /\ mapping' = SetItem(mapping, Head(todo).name, new)
              /\ modules' = IF parent = NoModule THEN heap
                            ELSE [heap EXCEPT ![parent] =
                                    SetItem(@, Last(Split(Head(todo).name)), new)]
    /\ todo' = Tail(todo)
    /\ UNCHANGED <<expansions, pc, items, logged, error, ret, passes, modules0, applied>>

\* One iteration of the loop that stores a replacement: mapping[name] = swapped.
LoopMap ==
    /\ pc = "loop" /\ todo # <<>>
    /\ \E o \in Outcomes(Head(todo).mod) :
        /\ Swapped(o)
        /\ kindOf' = Append(kindOf, o.kind)
        /\ ownState' = Append(ownState, o.state)
        /\ modules' = Append(modules, <<>>)
        /\ mapping' = SetItem(mapping, Head(todo).name, Len(modules) + 1)
    /\ todo' = Tail(todo)
    /\ UNCHANGED <<expansions, pc, items, logged, error, ret, passes, modules0, applied>>

\* The conversion raises: the call ends there.
LoopRaise ==
    /\ pc = "loop" /\ todo # <<>>
    /\ \E o \in Outcomes(Head(todo).mod) :
        /\ o.tag = "raise"
        /\ error' = o.exc
    /\ pc' = "raised"
    /\ UNCHANGED <<kindOf, modules, ownState, expansions,
                   todo, mapping, items, logged,
                   ret, passes, modules0, applied>>

\* logging.warning(f"Swapped {len(mapping)} modules"), then swap_expanded is entered.
LogWarning ==
    /\ pc = "loop" /\ todo = <<>>
    /\ logged' = Len(mapping)
    /\ items' = mapping
    /\ pc' = "swap"
    /\ UNCHANGED <<kindOf, modules, ownState, expansions,
                   todo, mapping, error, ret, passes,
                   modules0, applied>>

\* One iteration of swap_expanded's loop.
SwapStep ==
    /\ pc = "swap" /\ items # <<>>
    /\ LET path == Head(items).name
           new_mod == Head(items).mod
           parent_mod == SwapParent(modules, model, path)
       IN /\ parent_mod # NoModule
          /\ modules' = [modules EXCEPT ![parent_mod] =
                            SetItem(@, Last(Split(path)), new_mod)]
    /\ items' = Tail(items)
    /\ applied' = applied + 1
    /\ UNCHANGED <<kindOf, ownState, expansions, pc, todo, mapping, logged, error, ret,
                   passes, modules0>>

\* A path segment before the last names no child: KeyError.
SwapKeyError ==
    /\ pc = "swap" /\ items # <<>>
    /\ SwapParent(modules, model, Head(items).name) = NoModule
    /\ pc' = "raised"
    /\ error' = "KeyError"
    /\ UNCHANGED <<kindOf, modules, ownState, expansions,
                   todo, mapping, items, logged, ret,
                   passes, modules0, applied>>

\* swap_expanded returns model, and auto_expand returns it.
Return ==
    /\ pc = "swap" /\ items = <<>>
    /\ pc' = "returned"
    /\ ret' = model
    /\ UNCHANGED <<kindOf, modules, ownState, expansions,
                   todo, mapping, items, logged, error,
                   passes, modules0, applied>>

InjIdle ==
    /\ fn = <<>> /\ args = <<>> /\ kwargs = <<>> /\ ipc = "idle"
    /\ bound_args = <<>> /\ result = <<>> /\ invoked = 0

Init == InitE /\ InjIdle

Next ==
    \/ AutoExpandBegin /\ UNCHANGED ivars
    \/ LoopSkip /\ UNCHANGED ivars
    \/ LoopMap /\ UNCHANGED ivars
    \/ LoopRaise /\ UNCHANGED ivars
    \/ LogWarning /\ UNCHANGED ivars
    \/ SwapStep /\ UNCHANGED ivars
    \/ SwapKeyError /\ UNCHANGED ivars
    \/ Return /\ UNCHANGED ivars

Spec == Init /\ [][Next]_vars

-----------------------------------------------------------------------------
(* Part II, run_injected.  A callable is the sequence of its declared       *)
(* parameters, each with a name, a kind and, when hasDefault, a default     *)
(* value.  Values are integers; a tuple (its *args) is a sequence, a dict    *)
(* (its **kwargs) a function from keys to values.  The callables of the     *)
(* model return the values their parameters were bound to, like foo of the  *)
(* test.                                                                    *)

PO == "POSITIONAL_ONLY"
POK == "POSITIONAL_OR_KEYWORD"
VP == "VAR_POSITIONAL"
KO == "KEYWORD_ONLY"
VK == "VAR_KEYWORD"
ParamKinds == <<PO, POK, VP, KO, VK>>

\* Bounds of the model.
MaxParams == 3
MaxArgs == 2
MaxKw == 2

\* The value None, and the other value a named argument may carry.
PyNone == 0
KwValue == 6

ParamNameOrder == <<"x", "y", "z", "w", "v">>
ExtraKey == "u"
ArgValue(j) == 10 * j
DefaultOf(i) == 100 + i

EmptyDict == <<>>
Restrict(d, S) == [k \in S |-> d[k]]

KindRank(k) == CHOOSE r \in DOMAIN ParamKinds : ParamKinds[r] = k
IsPositional(p) == p.kind \in {PO, POK}
IsVariadic(p) == p.kind \in {VP, VK}

\* What "def" accepts: kinds in order, one *args and one **kwargs at most,
\* neither with a default, and no positional parameter without a default
\* after one with a default.
ValidSignature(f) ==
    /\ \A i, j \in 1..Len(f) : i < j =>
          /\ KindRank(f[i].kind) <= KindRank(f[j].kind)
          /\ f[i].kind = f[j].kind => ~IsVariadic(f[i])
          /\ (IsPositional(f[i]) /\ IsPositional(f[j]) /\ f[i].hasDefault)
                => f[j].hasDefault
    /\ \A i \in 1..Len(f) : IsVariadic(f[i]) => ~f[i].hasDefault

Signatures ==
    UNION {{f \in {[i \in 1..n |-> [name |-> ParamNameOrder[i],
                                     kind |-> c[i][1],
                                     hasDefault |-> c[i][2],
                                     default |-> DefaultOf(i)]] :
                       c \in [1..n -> {ParamKinds[r] : r \in DOMAIN ParamKinds}
                                          \X BOOLEAN]} :
               ValidSignature(f)} :
           n \in 0..MaxParams}

ArgTuples == {[j \in 1..k |-> ArgValue(j)] : k \in 0..MaxArgs}

KwKeys == {ParamNameOrder[i] : i \in 1..MaxParams} \cup {ExtraKey}
KwPools ==
    UNION {[S -> {KwValue, PyNone}] : S \in {T \in SUBSET KwKeys : Cardinality(T) <= MaxKw}}

ParamIndex(f, k) == CHOOSE i \in 1..Len(f) : f[i].name = k
HasParam(f, k) == \E i \in 1..Len(f) : f[i].name = k
HasKind(f, kind) == \E i \in 1..Len(f) : f[i].kind = kind
NumPositional(f) == Cardinality({i \in 1..Len(f) : IsPositional(f[i])})

TypeError == [ok |-> FALSE, exc |-> "TypeError"]
Ok(v) == [ok |-> TRUE, vals |-> v]

\* A mutation of OutKwargs: nothing is filtered.
OutKwargsAll(f, kw) == kw

\* out_kwargs = {k: v for (k, v) in kwargs.items() if k in fn_arg_names}
OutKwargs(f, kw) == Restrict(kw, {k \in DOMAIN kw : HasParam(f, k)})

(* inspect.Signature.bind of a and kw as CPython 3.11 computes it: first the *)
(* positional arguments against the parameters in order, then the remaining *)
(* parameters against the named arguments.  The answer is TypeError or the  *)
(* arguments bound so far, a function from parameter names to values.       *)

\* i: next parameter, j: next positional argument.  Ends with the bound
\* arguments and the first parameter left to the second phase.
RECURSIVE BindPositional(_, _, _, _, _, _)
BindPositional(f, a, kw, i, j, arguments) ==
    IF j > Len(a)
    THEN IF i > Len(f) THEN [ok |-> TRUE, arguments |-> arguments, next |-> i]
         ELSE IF f[i].kind = VP
              THEN [ok |-> TRUE, arguments |-> arguments, next |-> i + 1]
         ELSE IF f[i].name \in DOMAIN kw
              THEN IF f[i].kind = PO THEN TypeError
                   ELSE [ok |-> TRUE, arguments |-> arguments, next |-> i]
         ELSE IF f[i].kind = VK \/ f[i].hasDefault
              THEN [ok |-> TRUE, arguments |-> arguments, next |-> i]
         ELSE TypeError
    ELSE IF i > Len(f) THEN TypeError
         ELSE IF f[i].kind \in {VK, KO} THEN TypeError
         ELSE IF f[i].kind = VP
              THEN [ok |-> TRUE,
                    arguments |-> (f[i].name :> SubSeq(a, j, Len(a))) @@ arguments,
                    next |-> i + 1]
         ELSE IF f[i].name \in DOMAIN kw /\ f[i].kind # PO THEN TypeError
         ELSE BindPositional(f, a, kw, i + 1, j + 1, (f[i].name :> a[j]) @@ arguments)

\* i: next parameter, rest: the named arguments not popped yet.
RECURSIVE BindKeywords(_, _, _, _)
BindKeywords(f, i, rest, arguments) ==
    IF i > Len(f)
    THEN IF DOMAIN rest # {}
         THEN IF HasKind(f, VK)
              THEN Ok((f[CHOOSE v \in 1..Len(f) : f[v].kind = VK].name :> rest)
                          @@ arguments)
              ELSE TypeError
         ELSE Ok(arguments)
    ELSE IF IsVariadic(f[i]) THEN BindKeywords(f, i + 1, rest, arguments)
    ELSE IF f[i].name \in DOMAIN rest
         THEN IF f[i].kind = PO THEN TypeError
              ELSE BindKeywords(f, i + 1, Restrict(rest, DOMAIN rest \ {f[i].name}),
                                (f[i].name :> rest[f[i].name]) @@ arguments)
    ELSE IF ~f[i].hasDefault THEN TypeError
    ELSE BindKeywords(f, i + 1, rest, arguments)

\* bound_args = signature.bind( *args, **out_kwargs)
Bind(f, a, kw) ==
    LET first == BindPositional(f, a, kw, 1, 1, EmptyDict)
    IN IF ~first.ok THEN TypeError
       ELSE BindKeywords(f, first.next, kw, first.arguments)

\* A mutation of ApplyDefaults: a declared default replaces a supplied value.
ApplyDefaultsOverwrite(f, arguments) ==
    [k \in {f[i].name : i \in 1..Len(f)} |->
        LET p == f[ParamIndex(f, k)]
        IN IF p.hasDefault THEN p.default
           ELSE IF k \in DOMAIN arguments THEN arguments[k]
           ELSE IF p.kind = VP THEN <<>>
           ELSE EmptyDict]

\* bound_args.apply_defaults(): a missing parameter gets its declared
\* default, *args gets () and **kwargs gets {}.
ApplyDefaults(f, arguments) ==
    [k \in {f[i].name : i \in 1..Len(f)} |->
        LET p == f[ParamIndex(f, k)]
        IN IF k \in DOMAIN arguments THEN arguments[k]
           ELSE IF p.hasDefault THEN p.default
           ELSE IF p.kind = VP THEN <<>>
           ELSE EmptyDict]

\* bound_args.args: the positional parameters' values in order, *args
\* spliced in, up to the first keyword-only or **kwargs parameter.
RECURSIVE BoundArgs(_, _, _)
BoundArgs(f, arguments, i) ==
    IF i > Len(f) \/ f[i].kind \in {VK, KO} \/ f[i].name \notin DOMAIN arguments
    THEN <<>>
    ELSE (IF f[i].kind = VP THEN arguments[f[i].name] ELSE <<arguments[f[i].name]>>)
            \o BoundArgs(f, arguments, i + 1)

\* bound_args.kwargs: the keyword-only parameters' values by name, **kwargs
\* merged in (every parameter is bound once the defaults are applied).
RECURSIVE BoundKwargs(_, _, _)
BoundKwargs(f, arguments, i) ==
    IF i > Len(f) THEN EmptyDict
    ELSE IF f[i].kind = VK
         THEN arguments[f[i].name] @@ BoundKwargs(f, arguments, i + 1)
    ELSE IF f[i].kind = KO
         THEN BoundKwargs(f, arguments, i + 1) @@ (f[i].name :> arguments[f[i].name])
    ELSE BoundKwargs(f, arguments, i + 1)

(* The call of a Python function with a and kw.  Positional arguments fill  *)
(* the positional parameters in order and overflow into *args; a named      *)
(* argument fills the positional-or-keyword or keyword-only parameter of    *)
(* its name, else goes to **kwargs; what is left takes its default.         *)
Call(f, a, kw) ==
    LET np == NumPositional(f)
        byName == {k \in DOMAIN kw : HasParam(f, k) /\ f[ParamIndex(f, k)].kind \in {POK, KO}}
        extra == DOMAIN kw \ byName
        filled(i) == (IsPositional(f[i]) /\ i <= Len(a)) \/ f[i].name \in byName
    IN IF Len(a) > np /\ ~HasKind(f, VP) THEN TypeError
       ELSE IF \E k \in byName : ParamIndex(f, k) <= Len(a) /\ IsPositional(f[ParamIndex(f, k)])
            THEN TypeError
       ELSE IF extra # {} /\ ~HasKind(f, VK) THEN TypeError
       ELSE IF \E i \in 1..Len(f) : ~IsVariadic(f[i]) /\ ~filled(i) /\ ~f[i].hasDefault
            THEN TypeError
       ELSE Ok([k \in {f[i].name : i \in 1..Len(f)} |->
                LET i == ParamIndex(f, k)
                IN IF f[i].kind = VP THEN SubSeq(a, np + 1, Len(a))
                   ELSE IF f[i].kind = VK THEN Restrict(kw, extra)
                   ELSE IF IsPositional(f[i]) /\ i <= Len(a) THEN a[i]
                   ELSE IF k \in byName THEN kw[k]
                   ELSE f[i].default])

-----------------------------------------------------------------------------
(* run_injected                                                             *)

ExpIdle ==
    /\ kindOf = <<"Linear">> /\ modules = << <<>> >> /\ ownState = <<TRUE>>
    /\ expansions = DefaultExpansions
    /\ pc = "idle" /\ todo = <<>> /\ mapping = <<>> /\ items = <<>> /\ logged = -1
    /\ error = "none" /\ ret = NoModule /\ passes = 0 /\ modules0 = << <<>> >>
    /\ applied = 0

InitInj ==
    /\ ExpIdle
    /\ fn \in Signatures
    /\ args \in ArgTuples
    /\ kwargs \in KwPools
    /\ ipc = "start"
    /\ bound_args = EmptyDict
    /\ result = EmptyDict
    /\ invoked = 0

\* The signature is read, the named arguments filtered and bound, and the
\* defaults applied.
FilterBind ==
    /\ ipc = "start"
    /\ LET b == Bind(fn, args, OutKwargs(fn, kwargs))
       IN /\ b.ok
          /\ bound_args' = ApplyDefaults(fn, b.vals)
    /\ ipc' = "bound"
    /\ UNCHANGED <<fn, args, kwargs, result, invoked>>

\* signature.bind raises TypeError: run_injected ends there.
BindError ==
    /\ ipc = "start"
    /\ ~Bind(fn, args, OutKwargs(fn, kwargs)).ok
    /\ ipc' = "raised"
    /\ UNCHANGED <<fn, args, kwargs, bound_args, result, invoked>>

\* return fn( *bound_args.args, **bound_args.kwargs)
Invoke ==
    /\ ipc = "bound"
    /\ invoked' = invoked + 1
    /\ LET r == Call(fn, BoundArgs(fn, bound_args, 1), BoundKwargs(fn, bound_args, 1))
       IN IF r.ok THEN ipc' = "returned" /\ result' = r.vals
          ELSE ipc' = "raised" /\ result' = result
    /\ UNCHANGED <<fn, args, kwargs, bound_args>>

NextInj ==
    \/ FilterBind /\ UNCHANGED evars
    \/ BindError /\ UNCHANGED evars
    \/ Invoke /\ UNCHANGED evars

SpecInj == InitInj /\ [][NextInj]_vars

-----------------------------------------------------------------------------
(* Properties of the module expansion.                                      *)

\* The part of the heap that existed when the current call began.
OldHeap == SubSeq(modules, 1, Len(modules0))

\* Every dotted path of the hierarchy below module m, shared modules met
\* once per path.
RECURSIVE PathsBelow(_, _, _)
PathsBelow(mods, m, prefix) ==
    UNION {LET sub == SubmodulePrefix(prefix, mods[m][i].name)
           IN {sub} \cup PathsBelow(mods, mods[m][i].mod, sub) :
           i \in 1..Len(mods[m])}

\* The slot (p, n) is the target of some mapping key in the hierarchy the
\* call began with.
NamedByKey(p, n) ==
    \E i \in 1..Len(mapping) :
        LET segs == Split(mapping[i].name)
        IN /\ Walk(modules0, model, SubSeq(segs, 1, Len(segs) - 1)) = p
           /\ segs[Len(segs)] = n

SlotNames(p) ==
    {modules[p][i].name : i \in 1..Len(modules[p])}
        \cup {modules0[p][i].name : i \in 1..Len(modules0[p])}

SameSlot(p, n) ==
    /\ HasKey(modules[p], n) <=> HasKey(modules0[p], n)
    /\ HasKey(modules0[p], n) => GetItem(modules[p], n) = GetItem(modules0[p], n)

\* C4: while the conversions run, and when one of them raises, no parent's
\* child map differs from what it was when the call began.
C4_ConversionErrorNoSubstitution ==
    (pc = "loop" \/ (pc = "raised" /\ error \in {"ValueError", "RuntimeError"}))
        => OldHeap = modules0

\* A conversion raised after earlier conversions had stored replacements.
C4_Witness ==
    pc = "raised" /\ error = "ValueError" /\ Len(mapping) > 0

\* C5: a child whose kind is not a key of the rule table stays the same
\* object under the same name of the same parent, throughout the call.
C5_UnlistedKindKeepsSlot ==
    \A p \in 1..Len(modules0) : \A i \in 1..Len(modules0[p]) :
        kindOf[modules0[p][i].mod] \notin DOMAIN expansions
            => /\ HasKey(modules[p], modules0[p][i].name)
               /\ GetItem(modules[p], modules0[p][i].name) = modules0[p][i].mod

\* Where it does hold: in the first call on a hierarchy, and in any call
\* whose root has a kind outside the rule table.
UnlistedKindKeepsSlotFirstCall == passes <= 1 => C5_UnlistedKindKeepsSlot
UnlistedKindKeepsSlotUnlistedRoot ==
    kindOf[model] \notin DOMAIN expansions => C5_UnlistedKindKeepsSlot

\* C6: when swap_expanded has returned, every mapping key's dotted path
\* leads to its replacement, every child slot no key names holds what it
\* held before, and the object returned is the root it was given.
C6_SwapReplacesExactlyTheNamedChild ==
    pc = "returned" =>
        /\ \A i \in 1..Len(mapping) :
              Walk(modules, model, Split(mapping[i].name)) = mapping[i].mod
        /\ \A p \in 1..Len(modules0) : \A n \in SlotNames(p) :
              ~NamedByKey(p, n) => SameSlot(p, n)
        /\ ret = model

\* swap_expanded returned after replacing a child two levels down whose
\* parent kept another child.
C6_Witness ==
    /\ pc = "returned"
    /\ \E i \in 1..Len(mapping) :
        /\ Len(Split(mapping[i].name)) >= 2
        /\ LET p == SwapParent(modules0, model, mapping[i].name)
           IN /\ p # NoModule
              /\ Len(modules0[p]) >= 2
              /\ modules[p] # modules0[p]

\* C7: in the mapping handed to swap_expanded no key names the root, and the
\* parent of the entry about to be applied exists.
C7_MappingKeysValid ==
    pc = "swap" =>
        /\ \A i \in 1..Len(mapping) : mapping[i].name # EmptyStr
        /\ items # <<>> => SwapParent(modules, model, Head(items).name) # NoModule

\* C8: after a first pass with the default rule table has returned, no
\* dotted path below the root that led to a module of a listed kind still
\* leads to a module of a listed kind.
C8_EveryPathExpanded ==
    (pc = "returned" /\ passes = 1 /\ expansions = DefaultExpansions) =>
        \A path \in PathsBelow(modules0, model, EmptyStr) :
            kindOf[ModuleAt(modules0, model, path)] \in DOMAIN expansions
                => kindOf[ModuleAt(modules, model, path)] \notin DOMAIN expansions

\* C9: a call that raised has applied none of its mapping entries or all of
\* them.
C9_FailedPassNotPartial ==
    pc = "raised" =>
        \/ applied = 0 /\ OldHeap = modules0
        \/ applied = Len(mapping)

\* C10: a second pass with the default rule table does not raise, builds an
\* empty mapping and returns the hierarchy as it found it.
C10_SecondPassIdle ==
    (passes = 2 /\ expansions = DefaultExpansions) =>
        /\ pc # "raised"
        /\ pc \in {"swap", "returned"} => logged = 0
        /\ pc = "returned" => modules = modules0

-----------------------------------------------------------------------------
(* Properties of run_injected.                                              *)

Finished == ipc \in {"returned", "raised"}

\* The named arguments whose key is a declared parameter name of fn.
Surviving == [k \in {n \in DOMAIN kwargs : \E i \in 1..Len(fn) : fn[i].name = n}
                 |-> kwargs[k]]

\* fn called with the positional arguments and the surviving named ones.
Direct == Call(fn, args, Surviving)

SameAsDirect ==
    /\ ipc = "returned" => Direct.ok /\ result = Direct.vals
    /\ ipc = "raised" => ~Direct.ok

\* Parameter i is filled by a positional argument.
ByPosition(i) == IsPositional(fn[i]) /\ i <= Len(args)

\* Parameter i is filled by the surviving named argument of its name.
ByName(i) == fn[i].kind \in {POK, KO} /\ fn[i].name \in DOMAIN Surviving

\* A surviving named argument names a positional-only parameter that no
\* positional argument fills.
PositionalOnlyByName ==
    \E i \in 1..Len(fn) :
        fn[i].kind = PO /\ ~ByPosition(i) /\ fn[i].name \in DOMAIN Surviving

\* C1 as claimed: for every callable, run_injected ends as fn called with
\* the positional arguments and the surviving named arguments ends, with the
\* same result.
C1_SameAsDirectCall == Finished => SameAsDirect

\* Where the two part: run_injected raises without invoking fn whenever a
\* surviving named argument names a positional-only parameter that no
\* positional argument fills, also when fn would collect that argument in
\* its var-keyword parameter; everywhere else it ends as the direct call.
DirectCallExceptPositionalOnlyByName ==
    Finished => IF PositionalOnlyByName THEN ipc = "raised" /\ invoked = 0
                ELSE SameAsDirect

\* C2: when run_injected returns, a parameter filled by a positional
\* argument holds that argument, one filled by a surviving named argument
\* holds that argument, and every other parameter holds its declared default.
C2_DefaultsFillOnlyTheUnsupplied ==
    ipc = "returned" =>
        \A i \in 1..Len(fn) : ~IsVariadic(fn[i]) =>
            IF ByPosition(i) THEN result[fn[i].name] = args[i]
            ELSE IF ByName(i) THEN result[fn[i].name] = kwargs[fn[i].name]
            ELSE fn[i].hasDefault /\ result[fn[i].name] = fn[i].default

\* run_injected returned for a callable with one parameter filled by
\* position, one by name and one by its default, all three having defaults.
C2_Witness ==
    /\ ipc = "returned"
    /\ \E i, j, k \in 1..Len(fn) :
        /\ ByPosition(i) /\ fn[i].hasDefault
        /\ ByName(j) /\ ~ByPosition(j) /\ fn[j].hasDefault
        /\ ~IsVariadic(fn[k]) /\ ~ByPosition(k) /\ ~ByName(k)

TooManyPositional == Len(args) > NumPositional(fn) /\ ~HasKind(fn, VP)

RequiredLeftUnbound ==
    \E i \in 1..Len(fn) :
        ~IsVariadic(fn[i]) /\ ~fn[i].hasDefault /\ ~ByPosition(i)
            /\ fn[i].name \notin DOMAIN Surviving

\* A positional argument and a surviving named argument for one parameter.
Collision == \E i \in 1..Len(fn) : ByPosition(i) /\ fn[i].name \in DOMAIN Surviving

CollisionByName == \E i \in 1..Len(fn) : ByPosition(i) /\ ByName(i)

\* A surviving named argument that no parameter takes by name, for a
\* callable without a var-keyword parameter to collect it.
Uncollected ==
    /\ ~HasKind(fn, VK)
    /\ \E i \in 1..Len(fn) : fn[i].kind \in {PO, VP} /\ fn[i].name \in DOMAIN Surviving

\* C3 as claimed: run_injected raises without invoking fn when there are
\* too many positional arguments, a required parameter is left unbound, or
\* a positional and a surviving named argument target the same parameter;
\* in every other case fn is invoked exactly once.
C3_BindingErrorCases ==
    Finished =>
        IF TooManyPositional \/ RequiredLeftUnbound \/ Collision
        THEN ipc = "raised" /\ invoked = 0
        ELSE invoked = 1

\* C3 amended: run_injected raises without invoking fn when there are too
\* many positional arguments, a required parameter is left unbound, a
\* positional and a surviving named argument target the same
\* positional-or-keyword parameter, a surviving named argument names a
\* positional-only parameter no positional argument fills, or one names the
\* var-positional or a positional-only parameter of a callable without a
\* var-keyword parameter; in every other case fn is invoked exactly once and
\* run_injected returns.
C3_BindingErrorCasesAmended ==
    Finished =>
        IF \/ TooManyPositional \/ RequiredLeftUnbound \/ CollisionByName
           \/ PositionalOnlyByName \/ Uncollected
        THEN ipc = "raised" /\ invoked = 0
        ELSE ipc = "returned" /\ invoked = 1

\* run_injected raised on a collision alone, fn not invoked.
C3_Witness ==
    /\ ipc = "raised" /\ invoked = 0
    /\ CollisionByName
    /\ ~TooManyPositional /\ ~RequiredLeftUnbound /\ ~PositionalOnlyByName /\ ~Uncollected

====
